---- MODULE Spec2Model ----
(***************************************************************************)
(* Model of the sales analyst agent.                                       *)
(*                                                                         *)
(*  - the interactive driver of main.py around                             *)
(*    EnhancedSalesDataAnalyst.chat / reset_conversation /                  *)
(*    get_conversation_history (src/src/analysis_agent.py);                *)
(*  - the turn loop that ReActAgent runs inside chat.  ReActAgent is a     *)
(*    library class: its loop is modelled from section 4.3 of the          *)
(*    specification, with the iteration cap the code passes to it;         *)
(*  - the plain loop financial_analyst_agent and the routing predicate     *)
(*    should_continue of src/src/analysis_agent_spec.py.                   *)
(*                                                                         *)
(* Text is a sequence of one-character strings, so that strip(), lower()   *)
(* and slicing are computed as Python computes them.                       *)
(***************************************************************************)
EXTENDS Integers, Sequences, FiniteSets, TLC

VARIABLES
    pc,                   \* position of main.py's control thread
    crash_cause,          \* which setup step raised, "" when none did
    user_input,           \* main.py: user_input, the stripped line
    last_cmd,             \* which branch of the driver loop the last line took
    conversation_history, \* EnhancedSalesDataAnalyst.conversation_history
    listed,               \* what the last history command printed
    last_return,          \* what the last chat call returned
    response,             \* chat: response, the text the agent run returned
    interrupted_at,       \* pc at which KeyboardInterrupt arrived, "" when none
    history_before,       \* the stored history when the last chat call began
    llm_policy,           \* behaviour of the generation collaborator
    agent_pc,             \* position inside the agent run
    iterations,           \* generation calls made in the current turn
    pending_tool,         \* tool named by the pending tool-call request
    tool_outcome,         \* outcome of the last tool dispatch
    turn_log,             \* generation calls and dispatches of the current turn
    ctx_messages,         \* working memory of the current turn (the Context)
    turn_outcome,         \* how the last agent run ended
    program,              \* which entry point runs: main.py or app.py
    fa_pc,                \* position of financial_analyst_agent
    fa_system_prompt,     \* financial_analyst_agent: system_prompt
    fa_messages,          \* financial_analyst_agent: state["messages"]
    fa_query,             \* financial_analyst_agent: user_query
    fa_prompt,            \* all_messages of the last generation call
    fa_calls,             \* llm.invoke calls made so far
    sc_pc,                \* should_continue applied to drawn states: "off", "drawn", "done"
    sc_a, sc_b,           \* two drawn graph states
    sc_result_a, sc_result_b, \* should_continue of each
    fn_pc,                \* a tool function applied to drawn arguments: "off", "called", "done"
    fn_name,              \* which function
    fn_args,              \* its arguments
    fn_result,            \* what the call did: a returned value or a raised exception
    config,               \* self.config of an analyst driven through its methods
    tools,                \* self.tools, the registered tools in order
    llm,                  \* self.llm, the model it was created for
    system_prompt,        \* self.system_prompt
    agent                 \* self.agent: what the agent was created with

driverVars == <<pc, crash_cause, user_input, last_cmd, conversation_history,
                listed, last_return, response, interrupted_at, history_before>>
agentVars == <<llm_policy, agent_pc, iterations, pending_tool, tool_outcome,
               turn_log, ctx_messages, turn_outcome>>
loopVars == <<fa_pc, fa_system_prompt, fa_messages, fa_query, fa_prompt, fa_calls>>
scVars == <<sc_pc, sc_a, sc_b, sc_result_a, sc_result_b>>
fnVars == <<fn_pc, fn_name, fn_args, fn_result>>
objVars == <<config, tools, llm, system_prompt, agent>>
harnessVars == <<scVars, fnVars, objVars>>
vars == <<program, driverVars, agentVars, loopVars, harnessVars>>

\* what the steps of main.py, and of app.py, leave alone
outsideMain == <<program, loopVars, harnessVars>>
outsideApp == <<program, driverVars, agentVars, harnessVars>>

---------------------------------------------------------------------------
(* Bounds of the model *)

\* chat is not started once the stored history holds this many entries
MaxHistory == 4
\* financial_analyst_agent stops being fed once state["messages"] holds this many
MaxMessages == 4
\* longest graph state drawn for should_continue
MaxStateLen == 2
\* most rows a table of a drawn store holds
MaxRows == 3

(* Program constants *)

\* a cap other than the one the turn is specified to stop at
max_iterations_Twenty == 10 + 10

\* ReActAgent(..., max_iterations=10)
max_iterations == 10
\* print(f"... {msg['content'][:100]}...")
DisplayWidth == 100

---------------------------------------------------------------------------
(* Text *)

Whitespace == {" "}

LowerOf ==
    ("B" :> "b") @@ ("E" :> "e") @@ ("H" :> "h") @@ ("I" :> "i") @@
    ("O" :> "o") @@ ("Q" :> "q") @@ ("R" :> "r") @@ ("S" :> "s") @@
    ("T" :> "t") @@ ("U" :> "u") @@ ("X" :> "x") @@ ("Y" :> "y") @@
    ("G" :> "g") @@ ("M" :> "m") @@ ("A" :> "a")

\* str.lower()
Lower(s) == [i \in 1..Len(s) |-> IF s[i] \in DOMAIN LowerOf THEN LowerOf[s[i]] ELSE s[i]]

RECURSIVE LStrip(_)
LStrip(s) == IF s # <<>> /\ Head(s) \in Whitespace THEN LStrip(Tail(s)) ELSE s

RECURSIVE RStrip(_)
RStrip(s) ==
    IF s # <<>> /\ s[Len(s)] \in Whitespace THEN RStrip(SubSeq(s, 1, Len(s) - 1)) ELSE s

UpperOf ==
    ("a" :> "A") @@ ("b" :> "B") @@ ("c" :> "C") @@ ("e" :> "E") @@
    ("g" :> "G") @@ ("h" :> "H") @@ ("i" :> "I") @@ ("l" :> "L") @@
    ("m" :> "M") @@ ("n" :> "N") @@ ("o" :> "O") @@ ("p" :> "P") @@
    ("r" :> "R") @@ ("s" :> "S") @@ ("t" :> "T") @@ ("x" :> "X")

\* str.upper()
Upper(s) == [i \in 1..Len(s) |-> IF s[i] \in DOMAIN UpperOf THEN UpperOf[s[i]] ELSE s[i]]

\* sub in s
Contains(s, sub) ==
    \E i \in 0..Len(s) : i + Len(sub) <= Len(s) /\ SubSeq(s, i + 1, i + Len(sub)) = sub

\* str.strip()
Strip(s) == RStrip(LStrip(s))

\* s[:n]
Truncate(s, n) == SubSeq(s, 1, IF Len(s) < n THEN Len(s) ELSE n)

\* str.upper() on the two role names the history holds
UpperRole(r) == IF r = "user" THEN "USER" ELSE IF r = "assistant" THEN "ASSISTANT" ELSE r

W_exit == <<"e", "x", "i", "t">>
W_quit == <<"q", "u", "i", "t">>
W_bye == <<"b", "y", "e">>
W_reset == <<"r", "e", "s", "e", "t">>
W_history == <<"h", "i", "s", "t", "o", "r", "y">>

\* the list without its last word
ExitWords_NoBye == {W_exit, W_quit}

\* ['exit', 'quit', 'bye']
ExitWords == {W_exit, W_quit, W_bye}

\* the lines typed at the prompt
InputLines ==
    { <<>>, <<" ">>,
      W_exit, <<"Q", "u", "i", "t">>, <<" ", "B", "Y", "E", " ">>,
      W_reset, <<"R", "e", "s", "e", "t", " ">>,
      W_history, <<"H", "I", "S", "T", "O", "R", "Y">>,
      <<"H", "i">>, <<"b", "y", "e", "s">> }

\* the texts a finished agent run returns
Responses == { <<"o", "k">> }

\* tools the generation collaborator may name
RequestableTools == {"chitchat", "sql_query"}

Policies == {"plain", "chitchat_once", "always_tool", "free"}

---------------------------------------------------------------------------
(* Initial state: before main.py constructs the analyst *)

InitDriver ==
    /\ pc = "init"
    /\ crash_cause = ""
    /\ user_input = <<>>
    /\ last_cmd = "none"
    /\ conversation_history = <<>>
    /\ listed = <<>>
    /\ last_return = [kind |-> "none", text |-> <<>>]
    /\ response = <<>>
    /\ interrupted_at = ""
    /\ history_before = <<>>

InitAgent ==
    /\ agent_pc = "idle"
    /\ iterations = 0
    /\ pending_tool = ""
    /\ tool_outcome = ""
    /\ turn_log = <<>>
    /\ ctx_messages = <<>>
    /\ turn_outcome = "none"

InitLoop ==
    /\ fa_pc = "start"
    /\ fa_system_prompt = <<>>
    /\ fa_messages = <<>>
    /\ fa_query = <<>>
    /\ fa_prompt = <<>>
    /\ fa_calls = 0

FnOff ==
    /\ fn_pc = "off"
    /\ fn_name = ""
    /\ fn_args = <<>>
    /\ fn_result = <<>>

ObjOff ==
    /\ config = <<>>
    /\ tools = <<>>
    /\ llm = ""
    /\ system_prompt = ""
    /\ agent = <<>>

HarnessOff ==
    /\ sc_pc = "off"
    /\ sc_a = <<>>
    /\ sc_b = <<>>
    /\ sc_result_a = FALSE
    /\ sc_result_b = FALSE
    /\ FnOff
    /\ ObjOff

\* python main.py or python app.py, against one generation collaborator
Init ==
    /\ program \in {"main", "app"}
    /\ llm_policy \in Policies
    /\ InitDriver
    /\ InitAgent
    /\ InitLoop
    /\ HarnessOff

---------------------------------------------------------------------------
(* EnhancedSalesDataAnalyst.__init__, called by main.py outside its try *)

Construct ==
    /\ program = "main"
    /\ pc = "init"
    /\ \/ \* _setup_database raises: logged and re-raised
          /\ pc' = "crashed"
          /\ crash_cause' = "store"
       \/ \* _create_llm or _create_tools raises: nothing catches it
          /\ pc' = "crashed"
          /\ crash_cause' \in {"llm", "tools"}
       \/ \* _create_agent raises: logged and re-raised
          /\ pc' = "crashed"
          /\ crash_cause' = "agent"
       \/ /\ pc' = "await_input"
          /\ crash_cause' = ""
    /\ UNCHANGED <<user_input, last_cmd, conversation_history, listed,
                   last_return, response, interrupted_at, history_before, agentVars,
                   outsideMain>>

---------------------------------------------------------------------------
(* reset_conversation / get_conversation_history *)

reset_conversation == <<>>

get_conversation_history == conversation_history

\* the lines the history command prints, one per stored message
HistoryListing(history) ==
    [i \in 1..Len(history) |->
        [role |-> UpperRole(history[i].role),
         content |-> Truncate(history[i].content, DisplayWidth)]]

---------------------------------------------------------------------------
(* main.py: one pass of the while loop up to the call of chat *)

ReadLine ==
    /\ pc = "await_input"
    /\ \E line \in InputLines :
        /\ user_input' = Strip(line)
        /\ IF user_input' = <<>>
           THEN /\ last_cmd' = "empty"
                /\ UNCHANGED <<pc, conversation_history, listed, history_before,
                               agentVars>>
           ELSE IF Lower(user_input') \in ExitWords
           THEN /\ last_cmd' = "exit"
                /\ pc' = "exited"
                /\ UNCHANGED <<conversation_history, listed, history_before, agentVars>>
           ELSE IF Lower(user_input') = W_reset
           THEN /\ last_cmd' = "reset"
                /\ conversation_history' = reset_conversation
                /\ UNCHANGED <<pc, listed, history_before, agentVars>>
           ELSE IF Lower(user_input') = W_history
           THEN /\ last_cmd' = "history"
                /\ listed' = HistoryListing(get_conversation_history)
                /\ UNCHANGED <<pc, conversation_history, history_before, agentVars>>
           ELSE \* analyst.chat(user_input): ctx = Context(self.agent), agent.run
                /\ Len(conversation_history) + 2 <= MaxHistory
                /\ last_cmd' = "chat"
                /\ history_before' = conversation_history
                /\ pc' = "chat_run"
                /\ agent_pc' = "generating"
                /\ iterations' = 0
                /\ pending_tool' = ""
                /\ tool_outcome' = ""
                /\ turn_log' = <<>>
                /\ ctx_messages' = <<[role |-> "user", call_id |-> 0]>>
                /\ turn_outcome' = "running"
                /\ UNCHANGED <<conversation_history, listed, llm_policy>>
    /\ UNCHANGED <<crash_cause, last_return, response, interrupted_at, outsideMain>>

---------------------------------------------------------------------------
(* The agent run inside chat: handler = self.agent.run(user_message, ctx).  *)
(* ReActAgent's loop is library code; it is modelled from section 4.3 of    *)
(* the specification: generate, dispatch a requested tool, generate again,  *)
(* at most max_iterations generation calls per turn.                        *)

\* what the generation collaborator may answer, by the stub's policy
MayAnswerText ==
    \/ llm_policy \in {"plain", "free"}
    \/ llm_policy = "chitchat_once" /\ \E i \in 1..Len(turn_log) : turn_log[i] = "tool"

ToolsItMayRequest ==
    IF llm_policy \in {"always_tool", "free"} THEN RequestableTools
    ELSE IF llm_policy = "chitchat_once" /\ \A i \in 1..Len(turn_log) : turn_log[i] # "tool"
    THEN {"chitchat"}
    ELSE {}

MayRaise == llm_policy = "free"

\* a cap that already bites after the first generation call
IterationLimitReached_AfterOne(n) == n >= 1

\* step 6 of 4.3: the cap on the iterations of one turn
IterationLimitReached(n) == n >= max_iterations

AgentGenerate ==
    /\ pc = "chat_run"
    /\ agent_pc = "generating"
    /\ iterations' = iterations + 1
    /\ turn_log' = Append(turn_log, "gen")
    /\ \/ \* plain text: the final response of the turn
          /\ MayAnswerText
          /\ \E r \in Responses : response' = r
          /\ ctx_messages' = Append(ctx_messages, [role |-> "assistant", call_id |-> 0])
          /\ agent_pc' = "idle"
          /\ turn_outcome' = "responded"
          /\ pc' = "chat_store_user"
          /\ UNCHANGED pending_tool
       \/ \* a tool-call request
          /\ \E t \in ToolsItMayRequest : pending_tool' = t
          /\ ctx_messages' =
                Append(ctx_messages, [role |-> "assistant", call_id |-> iterations'])
          /\ agent_pc' = "dispatching"
          /\ UNCHANGED <<response, turn_outcome, pc>>
       \/ \* the generation call fails
          /\ MayRaise
          /\ agent_pc' = "idle"
          /\ turn_outcome' = "generation_error"
          /\ pc' = "chat_except"
          /\ UNCHANGED <<response, ctx_messages, pending_tool>>
    /\ UNCHANGED <<crash_cause, user_input, last_cmd, conversation_history, listed,
                   last_return, interrupted_at, history_before, llm_policy,
                   tool_outcome, outsideMain>>

\* a tool-result that does not carry the identifier of its request
ToolResultFor_NoId(messages) == [role |-> "tool", call_id |-> 0]

\* the tool-result message that answers the request in the last message
ToolResultFor(messages) ==
    [role |-> "tool", call_id |-> messages[Len(messages)].call_id]

AgentDispatch ==
    /\ pc = "chat_run"
    /\ agent_pc = "dispatching"
    /\ \E o \in {"ok", "error"} : tool_outcome' = o
    /\ turn_log' = Append(turn_log, "tool")
    /\ ctx_messages' = Append(ctx_messages, ToolResultFor(ctx_messages))
    /\ IF IterationLimitReached(iterations)
       THEN /\ agent_pc' = "idle"
            /\ turn_outcome' = "iteration_limit"
            /\ pc' = "chat_except"
       ELSE /\ agent_pc' = "generating"
            /\ UNCHANGED <<turn_outcome, pc>>
    /\ UNCHANGED <<crash_cause, user_input, last_cmd, conversation_history, listed,
                   last_return, response, interrupted_at, history_before, llm_policy,
                   iterations, pending_tool, outsideMain>>

---------------------------------------------------------------------------
(* EnhancedSalesDataAnalyst.chat, after the agent run *)

StoreUser(history, message) ==
    Append(history, [role |-> "user", content |-> message])

\* a second append that repeats the role of the first
StoreAssistant_AsUser(history, text) ==
    Append(history, [role |-> "user", content |-> text])

StoreAssistant(history, text) ==
    Append(history, [role |-> "assistant", content |-> text])

\* an except branch that takes back one stored message
HistoryOnError_PopLast(history, message) ==
    IF history = <<>> THEN history ELSE SubSeq(history, 1, Len(history) - 1)

\* an except branch that stores the user message of the failed turn
HistoryOnError_KeepUser(history, message) ==
    Append(history, [role |-> "user", content |-> message])

\* the history the except branch of chat leaves behind
HistoryOnError(history, message) == history

\* error_msg = f"Error during chat: {str(e)}"
ErrorMsg == <<"E", "r", "r", "o", "r">>

ChatStoreUser ==
    /\ pc = "chat_store_user"
    /\ conversation_history' = StoreUser(conversation_history, user_input)
    /\ pc' = "chat_store_assistant"
    /\ UNCHANGED <<crash_cause, user_input, last_cmd, listed, last_return, response,
                   interrupted_at, history_before, agentVars, outsideMain>>

ChatStoreAssistant ==
    /\ pc = "chat_store_assistant"
    /\ conversation_history' = StoreAssistant(conversation_history, response)
    /\ last_return' = [kind |-> "ok", text |-> response]
    /\ pc' = "await_input"
    /\ UNCHANGED <<crash_cause, user_input, last_cmd, listed, response,
                   interrupted_at, history_before, agentVars, outsideMain>>

\* a handler that catches the failure of the generation call only
ChatCatches_OnlyGeneration(outcome) == outcome = "generation_error"

\* except Exception as e: what the run of a turn raises is an Exception
ChatCatches(outcome) == outcome \in {"generation_error", "iteration_limit"}

ChatExcept ==
    /\ pc = "chat_except"
    /\ IF ChatCatches(turn_outcome)
       THEN /\ conversation_history' = HistoryOnError(conversation_history, user_input)
            /\ last_return' = [kind |-> "error", text |-> ErrorMsg]
            /\ pc' = "await_input"
            /\ UNCHANGED crash_cause
       ELSE \* the exception leaves chat and the while loop of main.py
            /\ pc' = "crashed"
            /\ crash_cause' = "turn"
            /\ UNCHANGED <<conversation_history, last_return>>
    /\ UNCHANGED <<user_input, last_cmd, listed, response,
                   interrupted_at, history_before, agentVars, outsideMain>>

---------------------------------------------------------------------------
(* main.py: except KeyboardInterrupt around the while loop *)

InsideTry ==
    {"await_input", "chat_run", "chat_store_user", "chat_store_assistant", "chat_except"}

KeyboardInterrupt ==
    /\ pc \in InsideTry
    /\ interrupted_at' = pc
    /\ pc' = "goodbye"
    /\ UNCHANGED <<crash_cause, user_input, last_cmd, conversation_history, listed,
                   last_return, response, history_before, agentVars, outsideMain>>

---------------------------------------------------------------------------
(* src/src/analysis_agent_spec.py: the plain loop that app.py calls *)

\* the lines typed at the prompts of financial_analyst_agent
LoopQueries == { W_exit, W_bye, <<"H", "i">> }

\* bool(s) of a Python string
Truthy(s) == s # <<>>

\* while user_query != "exit" or "bye"
WhileCond(query) == (query # W_exit) \/ Truthy(W_bye)

HumanMessage(text) == [type |-> "human", content |-> text]

\* the AIMessage values llm.invoke may return, by the stub's policy
LlmReplies ==
    LET texts == {[type |-> "ai", content |-> r, tool_calls |-> <<>>] : r \in Responses}
        calls == {[type |-> "ai", content |-> <<>>, tool_calls |-> <<t>>] :
                     t \in RequestableTools}
        chitchat == {[type |-> "ai", content |-> <<>>, tool_calls |-> <<"chitchat">>]}
    IN  CASE llm_policy = "plain" -> texts
          [] llm_policy = "always_tool" -> calls
          [] llm_policy = "chitchat_once" -> IF fa_calls = 0 THEN chitchat ELSE texts
          [] OTHER -> texts \cup calls

\* template.format_messages(user_query=user_query): a list of one message
format_messages(query) == <<[type |-> "prompt", content |-> <<"P">>]>>

\* a pass that calls llm.invoke a second time
InvokesPerIteration_Twice == 1 + 1

\* how many times one pass of the loop calls llm.invoke
InvokesPerIteration == 1

\* lines 58-60: the first prompt, before the loop
\* a prompt built without the stored messages
AllMessages_NoHistory(prompt, messages, user_message) == prompt \o <<user_message>>

\* all_messages = system_prompt + list(state["messages"]) + [user_message]
AllMessages(prompt, messages, user_message) == prompt \o messages \o <<user_message>>

FA_Start ==
    /\ program = "app"
    /\ fa_pc = "start"
    /\ \E q \in LoopQueries :
        /\ fa_query' = q
        /\ fa_system_prompt' = format_messages(q)
    /\ fa_pc' = "loop"
    /\ UNCHANGED <<outsideApp, fa_messages, fa_prompt, fa_calls>>

\* lines 63-78: one pass of the while loop
FA_Iterate ==
    /\ program = "app"
    /\ fa_pc = "loop"
    /\ Len(fa_messages) + 2 <= MaxMessages
    /\ IF WhileCond(fa_query)
       THEN LET user_message == HumanMessage(fa_query)
                all_messages == AllMessages(fa_system_prompt, fa_messages, user_message)
            IN  /\ fa_prompt' = all_messages
                /\ fa_calls' = fa_calls + InvokesPerIteration
                /\ \/ \E reply \in LlmReplies, q \in LoopQueries :
                        /\ fa_messages' = fa_messages \o <<user_message, reply>>
                        /\ fa_query' = q
                        /\ fa_pc' = "loop"
                   \/ \* llm.invoke raises: nothing catches it
                      /\ MayRaise
                      /\ fa_pc' = "crashed"
                      /\ UNCHANGED <<fa_messages, fa_query>>
       ELSE /\ fa_pc' = "returned"
            /\ UNCHANGED <<fa_messages, fa_query, fa_prompt, fa_calls>>
    /\ UNCHANGED <<outsideApp, fa_system_prompt>>

\* a predicate that looks at every message of the state
should_continue_AnyMessage(state) ==
    \E i \in 1..Len(state.messages) :
        "tool_calls" \in DOMAIN state.messages[i] /\ Len(state.messages[i].tool_calls) > 0

\* should_continue(state)
should_continue(state) ==
    LET last_message == state.messages[Len(state.messages)]
    IN  "tool_calls" \in DOMAIN last_message /\ Len(last_message.tool_calls) > 0

---------------------------------------------------------------------------
(* should_continue as a function: applied to drawn graph states.  app.py    *)
(* compiles the graph of build_the_graph and never invokes it.             *)

\* the messages a graph state may hold
GraphMessages ==
    { HumanMessage(<<"H", "i">>),
      [type |-> "ai", content |-> <<"o", "k">>, tool_calls |-> <<>>],
      [type |-> "ai", content |-> <<>>, tool_calls |-> <<"chitchat">>],
      [type |-> "ai", content |-> <<>>, tool_calls |-> <<"sql_query", "chitchat">>] }

\* the non-empty sequences of at most n messages
GraphStates(n) ==
    UNION { {[messages |-> m] : m \in [1..k -> GraphMessages]} : k \in 1..n }

InitSC ==
    /\ program = "graph"
    /\ llm_policy = "plain"
    /\ InitDriver
    /\ InitAgent
    /\ InitLoop
    /\ sc_pc = "drawn"
    /\ sc_a \in GraphStates(MaxStateLen)
    /\ sc_b \in GraphStates(MaxStateLen)
    /\ sc_result_a = FALSE
    /\ sc_result_b = FALSE
    /\ FnOff
    /\ ObjOff

SC_Apply ==
    /\ sc_pc = "drawn"
    /\ sc_result_a' = should_continue(sc_a)
    /\ sc_result_b' = should_continue(sc_b)
    /\ sc_pc' = "done"
    /\ UNCHANGED <<program, driverVars, agentVars, loopVars, sc_a, sc_b, fnVars, objVars>>

NextSC == SC_Apply

SpecSC == InitSC /\ [][NextSC]_vars

---------------------------------------------------------------------------
(* The relational store: a SQLite file with some tables *)

\* column name and declared type, in column order
TableColumns ==
    [ products |-> << <<"ProductID", "INTEGER">>, <<"ProductName", "TEXT">>,
                      <<"Price", "REAL">> >>,
      cities   |-> << <<"CityID", "INTEGER">>, <<"CityName", "TEXT">> >>,
      order    |-> << <<"OrderID", "INTEGER">> >> ]

\* sqlite_master lists the tables in this order
TableOrder == <<"cities", "order", "products">>

\* a table whose name is not a plain identifier: order is an SQL keyword, so
\* the statements that splice the bare name in do not parse
NeedsQuoting(table) == table = "order"

\* the n-th row of a table, a value per column
RowOf(table, n) ==
    [c \in {TableColumns[table][i][1] : i \in 1..Len(TableColumns[table])} |-> <<c, n>>]

\* a store: for each of its tables, the number of rows
Stores ==
    UNION { [T -> 0..MaxRows] : T \in SUBSET {"cities", "order", "products"} }

TablesOf(store) == SelectSeq(TableOrder, LAMBDA t : t \in DOMAIN store)

\* the statements sql_executor may be asked to run
Queries ==
    { [kind |-> "text", table |-> t, wellformed |-> w] :
        t \in {"cities", "products", "sales"}, w \in BOOLEAN }

\* the builtin str, which is not a statement
StrType == [kind |-> "type"]

\* cursor.execute(statement); cursor.fetchall()
Execute(store, statement) ==
    IF statement.kind # "text"
    THEN [kind |-> "raise", exc |-> "TypeError"]
    ELSE IF ~statement.wellformed \/ NeedsQuoting(statement.table)
    THEN [kind |-> "raise", exc |-> "sqlite3.Error", msg |-> "syntax error"]
    ELSE IF statement.table \notin DOMAIN store
    THEN [kind |-> "raise", exc |-> "sqlite3.Error", msg |-> "no such table"]
    ELSE [kind |-> "rows",
          rows |-> [n \in 1..store[statement.table] |-> RowOf(statement.table, n)]]

---------------------------------------------------------------------------
(* src/src/analysis_agent_spec.py: sql_executor *)

\* an executor that runs the query it was given
ExecutedStatement_Query(query) == query

\* cursor.execute(str): the argument of execute
ExecutedStatement(query) == StrType

sql_executor(store, query) ==
    LET done == Execute(store, ExecutedStatement(query))
    IN  IF done.kind = "rows"
        THEN [kind |-> "return", value |-> [results |-> done.rows]]
        ELSE IF done.exc = "sqlite3.Error"
        THEN [kind |-> "return", value |-> [error |-> done.msg]]
        ELSE [kind |-> "raise", exc |-> done.exc]

Draw_sql_executor ==
    /\ fn_name = "sql_executor"
    /\ fn_args \in [store : Stores, query : Queries, other : Queries]

Call_sql_executor ==
    /\ fn_pc = "called"
    /\ fn_name = "sql_executor"
    /\ fn_result' = <<sql_executor(fn_args.store, fn_args.query),
                      sql_executor(fn_args.store, fn_args.other)>>
    /\ fn_pc' = "done"
    /\ UNCHANGED <<program, driverVars, agentVars, loopVars, scVars, fn_name, fn_args, objVars>>

---------------------------------------------------------------------------
(* src/src/utils.py: get_table_schema_and_sample_rows *)

\* select * from {tb} limit 2
SampleLimit == 2

FirstRows(rows, n) == SubSeq(rows, 1, IF Len(rows) < n THEN Len(rows) ELSE n)

\* PRAGMA table_info({tb}): one row per column, (cid, name, type, ...)
TableInfo(store, tb) ==
    IF NeedsQuoting(tb)
    THEN [kind |-> "raise", exc |-> "sqlite3.Error", msg |-> "syntax error"]
    ELSE [kind |-> "rows",
          rows |-> [i \in 1..Len(TableColumns[tb]) |->
                        <<i - 1, TableColumns[tb][i][1], TableColumns[tb][i][2]>>]]

\* schema = {col[1]: col[2] for col in schema}
SchemaDict(info) ==
    [c \in {info[i][2] : i \in 1..Len(info)} |->
        (CHOOSE i \in 1..Len(info) :
            /\ info[i][2] = c
            /\ \A j \in 1..Len(info) : info[j][2] = c => j <= i)
        ]

\* the type the last column of that name declares
SchemaOf(info) ==
    LET last == SchemaDict(info)
    IN  [c \in DOMAIN last |-> info[last[c]][3]]

\* one_record = {key: row[key] for key, _ in schema.items()}
OneRecord(schema, row) == [key \in DOMAIN schema |-> row[key]]

\* the body of the for loop over the tables: an exception of either query
\* leaves the function, nothing catches it
RECURSIVE DescribeTables(_, _, _)
DescribeTables(store, remaining, described) ==
    IF remaining = <<>>
    THEN [kind |-> "return", value |-> [tables |-> described]]
    ELSE LET tb == Head(remaining)
             info == TableInfo(store, tb)
             head == Execute(store, [kind |-> "text", table |-> tb, wellformed |-> TRUE])
         IN  IF info.kind = "raise"
             THEN [kind |-> "raise", exc |-> info.exc]
             ELSE IF head.kind = "raise"
             THEN [kind |-> "raise", exc |-> head.exc]
             ELSE LET schema == SchemaOf(info.rows)
                      data_head == FirstRows(head.rows, SampleLimit)
                      entry == [schema |-> schema,
                                sample_rows |-> [n \in 1..Len(data_head) |->
                                                    OneRecord(schema, data_head[n])]]
                  IN  DescribeTables(store, Tail(remaining),
                          [t \in DOMAIN described \cup {tb} |->
                              IF t = tb THEN entry ELSE described[t]])

get_table_schema_and_sample_rows(store) ==
    DescribeTables(store, TablesOf(store), <<>>)

Draw_get_table_schema_and_sample_rows ==
    /\ fn_name = "get_table_schema_and_sample_rows"
    /\ fn_args \in [store : Stores]

Call_get_table_schema_and_sample_rows ==
    /\ fn_pc = "called"
    /\ fn_name = "get_table_schema_and_sample_rows"
    /\ fn_result' = get_table_schema_and_sample_rows(fn_args.store)
    /\ fn_pc' = "done"
    /\ UNCHANGED <<program, driverVars, agentVars, loopVars, scVars, fn_name, fn_args, objVars>>

---------------------------------------------------------------------------
(* src/src/analysis_agent.py: the functions behind the visualization and
   chitchat tools *)

W_bar == <<"b", "a", "r">>
W_line == <<"l", "i", "n", "e">>
W_pie == <<"p", "i", "e">>
W_scatter == <<"s", "c", "a", "t", "t", "e", "r">>
W_histogram == <<"h", "i", "s", "t", "o", "g", "r", "a", "m">>
W_box == <<"b", "o", "x">>

\* a list of chart types that lacks the last one
valid_types_NoBox == {W_bar, W_line, W_pie, W_scatter, W_histogram}

valid_types == {W_bar, W_line, W_pie, W_scatter, W_histogram, W_box}

\* the chart types asked for
ChartTypes ==
    {W_bar, W_line, W_pie, W_scatter, W_histogram, W_box} \cup { <<"t", "r", "e", "e", "m", "a", "p">>, <<"B", "A", "R">>, <<"P", "i", "e">>, <<>> }

\* the data descriptions given
Descriptions == { <<"s", "a", "l", "e", "s", " ", "b", "y", " ", "c", "i", "t", "y">>, <<"b", "o", "x">>, <<>> }

\* the pieces of the acknowledgement around the type and the description
AckGenerated == <<"G", "e", "n", "e", "r", "a", "t", "e", "d", " ">>
AckChartFor == <<" ", "c", "h", "a", "r", "t", " ", "f", "o", "r", ":", " ">>
AckDisplayed ==
    <<".", " ", "C", "h", "a", "r", "t", " ", "w", "o", "u", "l", "d", " ",
    "b", "e", " ", "d", "i", "s", "p", "l", "a", "y", "e", "d", " ", "i",
    "n", " ", "t", "h", "e", " ", "U", "I", ".">>

generate_visualization(data_description, chart_type) ==
    LET coerced == IF chart_type \notin valid_types THEN W_bar ELSE chart_type
    IN  [kind |-> "return",
         value |-> AckGenerated \o Upper(coerced) \o AckChartFor \o data_description
                       \o AckDisplayed]

Draw_generate_visualization ==
    /\ fn_name = "generate_visualization"
    /\ fn_args \in [data_description : Descriptions, chart_type : ChartTypes]

Call_generate_visualization ==
    /\ fn_pc = "called"
    /\ fn_name = "generate_visualization"
    /\ fn_result' = generate_visualization(fn_args.data_description, fn_args.chart_type)
    /\ fn_pc' = "done"
    /\ UNCHANGED <<program, driverVars, agentVars, loopVars, scVars, fn_name, fn_args, objVars>>

\* a greeting list that lacks its second entry
greetings_NoHi ==
    { <<"h", "e", "l", "l", "o">>,
      <<"h", "e", "y">>,
      <<"g", "r", "e", "e", "t", "i", "n", "g", "s">>,
      <<"g", "o", "o", "d", " ", "m", "o", "r", "n", "i", "n", "g">>,
      <<"g", "o", "o", "d", " ", "a", "f", "t", "e", "r", "n", "o", "o", "n">> }

greetings ==
    { <<"h", "e", "l", "l", "o">>,
      <<"h", "i">>,
      <<"h", "e", "y">>,
      <<"g", "r", "e", "e", "t", "i", "n", "g", "s">>,
      <<"g", "o", "o", "d", " ", "m", "o", "r", "n", "i", "n", "g">>,
      <<"g", "o", "o", "d", " ", "a", "f", "t", "e", "r", "n", "o", "o", "n">> }

\* the messages handed to the chitchat tool
ChitchatMessages ==
    { <<"H", "e", "l", "l", "o", " ", "t", "h", "e", "r", "e">>,
      <<"w", "h", "a", "t", "'", "s", " ", "t", "h", "e", " ", "r", "e", "v",
        "e", "n", "u", "e", " ", "t", "r", "e", "n", "d">>,
      <<"H", "E", "Y">>,
      <<"G", "o", "o", "d", " ", "M", "o", "r", "n", "i", "n", "g">>,
      <<"g", "o", "o", "d", " ", "a", "f", "t", "e", "r", "n", "o", "o", "n">>,
      <<"G", "r", "e", "e", "t", "i", "n", "g", "s">>,
      <<"T", "h", "i", "s">>,
      <<"b", "y", "e">>,
      <<>>,
      <<"H", "i">>,
      <<"t", "h", "a", "n", "k", "s">>,
      <<"w", "h", "i", "c", "h", " ", "c", "i", "t", "y">> }

GreetingResponse == "Hello! I'm your AI Sales Data Analyst. ..."
FallbackResponse == "I'm here to help you analyze sales data. ..."

handle_chitchat(message) ==
    LET message_lower == Lower(message)
    IN  [kind |-> "return",
         value |-> IF \E greeting \in greetings : Contains(message_lower, greeting)
                   THEN GreetingResponse
                   ELSE FallbackResponse]

Draw_handle_chitchat ==
    /\ fn_name = "handle_chitchat"
    /\ fn_args \in [message : ChitchatMessages]

Call_handle_chitchat ==
    /\ fn_pc = "called"
    /\ fn_name = "handle_chitchat"
    /\ fn_result' = handle_chitchat(fn_args.message)
    /\ fn_pc' = "done"
    /\ UNCHANGED <<program, driverVars, agentVars, loopVars, scVars, fn_name, fn_args, objVars>>

---------------------------------------------------------------------------
(* The tool functions, each applied to drawn arguments *)

InitFn ==
    /\ program = "tools"
    /\ llm_policy = "plain"
    /\ InitDriver
    /\ InitAgent
    /\ InitLoop
    /\ sc_pc = "off"
    /\ sc_a = <<>>
    /\ sc_b = <<>>
    /\ sc_result_a = FALSE
    /\ sc_result_b = FALSE
    /\ ObjOff
    /\ fn_pc = "called"
    /\ fn_result = <<>>
    /\ \/ Draw_sql_executor
       \/ Draw_get_table_schema_and_sample_rows
       \/ Draw_generate_visualization
       \/ Draw_handle_chitchat

NextFn ==
    \/ Call_sql_executor
    \/ Call_get_table_schema_and_sample_rows
    \/ Call_generate_visualization
    \/ Call_handle_chitchat

SpecFn == InitFn /\ [][NextFn]_vars

---------------------------------------------------------------------------
(* src/src/analysis_agent.py: an EnhancedSalesDataAnalyst driven through
   chat, reset_conversation, set_system_prompt and update_config *)

\* _create_tools lists the tools in this order
ToolOrder == <<"sql_query", "visualization", "analysis", "chitchat">>

\* the AgentConfig switch of each tool
FlagOf ==
    [ sql_query     |-> "use_sql_tool",
      visualization |-> "use_visualization_tool",
      analysis      |-> "use_analysis_tool",
      chitchat      |-> "use_chitchat_tool" ]

ToolFlags == {"use_sql_tool", "use_visualization_tool", "use_analysis_tool",
              "use_chitchat_tool"}

Models == {"gpt-5-nano", "gpt-4o"}

\* the keys whose change makes update_config recreate the LLM and the agent
LlmKeys == {"model", "temperature", "max_tokens", "top_p"}

\* AgentConfig objects handed to the constructor
Configs ==
    { [k \in ToolFlags \cup {"model"} |-> IF k = "model" THEN "gpt-5-nano" ELSE f[k]] :
        f \in [ToolFlags -> BOOLEAN] }

SYSTEM_PROMPT == "SYSTEM_PROMPT"

Prompts == {SYSTEM_PROMPT, "custom"}

\* keyword arguments of update_config: one switch, the model, a key that
\* AgentConfig does not have, or a switch together with the model
Kwargs ==
    LET flag == { [k \in {key} |-> b] : key \in ToolFlags, b \in BOOLEAN }
        model == { [k \in {"model"} |-> m] : m \in Models }
        unknown == { [k \in {"colour"} |-> TRUE] }
        both == { [k \in DOMAIN f \cup {"model"} |-> IF k = "model" THEN m ELSE f[k]] :
                    f \in flag, m \in Models }
    IN  flag \cup model \cup unknown \cup both

\* the for loop of update_config: setattr for the keys the config has
SetAttrs(cfg, kwargs) ==
    [k \in DOMAIN cfg |-> IF k \in DOMAIN kwargs THEN kwargs[k] ELSE cfg[k]]

\* _create_tools: the tools whose factory does not return None
create_tools(cfg) == SelectSeq(ToolOrder, LAMBDA t : cfg[FlagOf[t]])

create_llm(cfg) == cfg["model"]

create_agent(registered, model, prompt) ==
    [tools |-> registered, llm |-> model, system_prompt |-> prompt]

\* self.tools once update_config has returned: it has no call of _create_tools
ToolsAfterUpdate(registered, cfg) == registered

InitObj ==
    /\ program = "api"
    /\ llm_policy = "plain"
    /\ InitDriver
    /\ InitAgent
    /\ InitLoop
    /\ sc_pc = "off"
    /\ sc_a = <<>>
    /\ sc_b = <<>>
    /\ sc_result_a = FALSE
    /\ sc_result_b = FALSE
    /\ FnOff
    /\ config \in Configs
    /\ system_prompt = SYSTEM_PROMPT
    /\ llm = create_llm(config)
    /\ tools = create_tools(config)
    /\ agent = create_agent(tools, llm, system_prompt)

\* the messages sent to chat
ObjMessages == { <<"H", "i">> }

objRest == <<program, agentVars, loopVars, scVars, fnVars, pc, crash_cause, listed,
             interrupted_at>>

Obj_chat ==
    /\ program = "api"
    /\ Len(conversation_history) + 2 <= MaxHistory
    /\ \E message \in ObjMessages, outcome \in {"ok", "error"} :
        /\ user_input' = message
        /\ last_cmd' = "chat"
        /\ history_before' = conversation_history
        /\ IF outcome = "ok"
           THEN \E text \in Responses :
                /\ response' = text
                /\ conversation_history' =
                       StoreAssistant(StoreUser(conversation_history, message), text)
                /\ last_return' = [kind |-> "ok", text |-> text]
           ELSE /\ conversation_history' = HistoryOnError(conversation_history, message)
                /\ last_return' = [kind |-> "error", text |-> ErrorMsg]
                /\ UNCHANGED response
    /\ UNCHANGED <<objRest, objVars>>

Obj_reset_conversation ==
    /\ program = "api"
    /\ conversation_history' = <<>>
    /\ last_cmd' = "reset"
    /\ UNCHANGED <<objRest, objVars, user_input, history_before, response, last_return>>

Obj_set_system_prompt ==
    /\ program = "api"
    /\ \E prompt \in Prompts :
        /\ system_prompt' = prompt
        /\ agent' = create_agent(tools, llm, prompt)
    /\ last_cmd' = "set_system_prompt"
    /\ UNCHANGED <<objRest, config, tools, llm, conversation_history, user_input,
                   history_before, response, last_return>>

Obj_update_config ==
    /\ program = "api"
    /\ \E kwargs \in Kwargs :
        /\ config' = SetAttrs(config, kwargs)
        /\ tools' = ToolsAfterUpdate(tools, config')
        /\ IF DOMAIN kwargs \cap LlmKeys # {}
           THEN /\ llm' = create_llm(config')
                /\ agent' = create_agent(tools', llm', system_prompt)
           ELSE UNCHANGED <<llm, agent>>
    /\ last_cmd' = "update_config"
    /\ UNCHANGED <<objRest, system_prompt, conversation_history, user_input,
                   history_before, response, last_return>>

NextObj ==
    \/ Obj_chat
    \/ Obj_reset_conversation
    \/ Obj_set_system_prompt
    \/ Obj_update_config

SpecObj == InitObj /\ [][NextObj]_vars

---------------------------------------------------------------------------

Next ==
    \/ Construct
    \/ ReadLine
    \/ AgentGenerate
    \/ AgentDispatch
    \/ ChatStoreUser
    \/ ChatStoreAssistant
    \/ ChatExcept
    \/ KeyboardInterrupt
    \/ FA_Start
    \/ FA_Iterate

Spec == Init /\ [][Next]_vars

---------------------------------------------------------------------------
(* Properties *)

ResetStep == pc = "await_input" /\ pc' = "await_input" /\ last_cmd' = "reset"

\* C1: from one state to the next the number of stored conversation messages
\* never decreases, in chat's conversation_history and in the plain loop's
\* state["messages"], except in a reset_conversation step, after which the
\* stored history is empty.
C1_HistoryOnlyGrows ==
    [][ /\ \/ Len(conversation_history') >= Len(conversation_history)
           \/ ResetStep /\ conversation_history' = <<>>
        /\ ResetStep => conversation_history' = <<>>
        /\ Len(fa_messages') >= Len(fa_messages) ]_vars

\* a reset that emptied a history which had grown over an earlier turn
C1_Witness ==
    /\ last_cmd = "reset"
    /\ conversation_history = <<>>
    /\ history_before # <<>>

\* C2: every tool-result message is immediately preceded by the assistant
\* message whose tool-call request it answers (same identifier); the stored
\* histories hold no tool-result message at all.
C2_NoOrphanToolResult ==
    /\ \A i \in 1..Len(ctx_messages) :
          ctx_messages[i].role = "tool" =>
             /\ i > 1
             /\ ctx_messages[i - 1].role = "assistant"
             /\ ctx_messages[i - 1].call_id # 0
             /\ ctx_messages[i - 1].call_id = ctx_messages[i].call_id
    /\ \A i \in 1..Len(conversation_history) :
          conversation_history[i].role \in {"user", "assistant"}
    /\ \A i \in 1..Len(fa_messages) : fa_messages[i].type \in {"human", "ai"}

\* a finished turn that dispatched a tool, its result in the turn's memory
C2_Witness ==
    /\ \E i \in 1..Len(ctx_messages) : ctx_messages[i].role = "tool"
    /\ turn_outcome = "responded"
    /\ pc = "await_input"
    /\ conversation_history # <<>>

\* C3: when the generation call of a turn fails, chat returns a visible error
\* string and the stored history is what it was when chat was called: nothing
\* is appended before or during the run, nor by the except branch.
C3_FailedTurnKeepsHistory ==
    /\ pc \in {"chat_run", "chat_except"} => conversation_history = history_before
    /\ (pc = "await_input" /\ last_cmd = "chat" /\ turn_outcome = "generation_error") =>
          /\ last_return.kind = "error"
          /\ last_return.text # <<>>
          /\ conversation_history = history_before

\* chat has returned from a failed generation call, with earlier turns stored
C3_Witness ==
    /\ pc = "await_input"
    /\ last_cmd = "chat"
    /\ turn_outcome = "generation_error"
    /\ history_before # <<>>

TurnFailures == {"generation_error", "iteration_limit"}

SurvivesTurnErrors ==
    /\ (pc = "chat_run" /\ turn_outcome' \in TurnFailures) => pc' = "chat_except"
    /\ (agent_pc = "dispatching" /\ Len(turn_log') > Len(turn_log) /\ tool_outcome' = "error") =>
          pc' \in {"chat_run", "chat_except"}
    /\ (pc = "chat_except" /\ pc' # "goodbye") => pc' = "await_input"

\* C4 as stated: an error inside a turn never ends the session, and only a
\* setup-time store failure ends the process.
C4_OnlyStoreFailureIsFatal ==
    [][ /\ SurvivesTurnErrors
        /\ pc' = "crashed" => (pc = "init" /\ crash_cause' = "store") ]_vars

\* C4, amended: an error inside a turn (generation failure, tool failure,
\* iteration limit) never ends the session: after the failing turn the driver
\* waits for the next input line; of the errors of setup and of turns only
\* the setup-time ones end the process, and those are the failure of the
\* store and equally of the creation of the LLM, the tools or the agent.
C4_OnlySetupFailuresAreFatal ==
    [][ /\ SurvivesTurnErrors
        /\ pc' = "crashed" =>
              /\ pc = "init"
              /\ last_cmd = "none"
              /\ crash_cause' \in {"store", "llm", "tools", "agent"} ]_vars

\* the driver waits for input after a turn in which a tool and then the turn failed
C4_Witness ==
    /\ pc = "await_input"
    /\ last_cmd = "chat"
    /\ last_return.kind = "error"
    /\ turn_outcome \in TurnFailures
    /\ tool_outcome = "error"

\* C5: with a collaborator that always answers plain text, a turn makes
\* exactly one generation call and goes straight to Responded: the agent run
\* logs one generation and no dispatch, the plain loop calls llm.invoke once
\* per stored turn and should_continue of its state is false.
C5_PlainTextOneGeneration ==
    llm_policy = "plain" =>
        /\ turn_log \in {<<>>, <<"gen">>}
        /\ turn_outcome \in {"none", "running", "responded"}
        /\ turn_outcome = "responded" => (turn_log = <<"gen">> /\ pc # "chat_run")
        /\ turn_log = <<"gen">> => turn_outcome = "responded"
        /\ 2 * fa_calls = Len(fa_messages)
        /\ fa_messages # <<>> => ~should_continue([messages |-> fa_messages])

\* chat has returned the response of a one-generation turn to main.py
C5_Witness ==
    /\ llm_policy = "plain"
    /\ pc = "await_input"
    /\ last_return.kind = "ok"
    /\ turn_log = <<"gen">>

IsPrefix(s, t) == Len(s) <= Len(t) /\ s = SubSeq(t, 1, Len(s))

\* C6: with a collaborator that requests "chitchat" once and then answers
\* plain text, a turn makes two generation calls and one dispatch, the
\* dispatch between the two calls, and ends Responded.
C6_ChitchatOnceTwoGenerations ==
    llm_policy = "chitchat_once" =>
        /\ IsPrefix(turn_log, <<"gen", "tool", "gen">>)
        /\ turn_outcome \in {"none", "running", "responded"}
        /\ turn_outcome = "responded" <=> turn_log = <<"gen", "tool", "gen">>
        /\ Len(turn_log) >= 2 => pending_tool = "chitchat"

\* chat has returned after generation, dispatch of chitchat, generation
C6_Witness ==
    /\ llm_policy = "chitchat_once"
    /\ pc = "await_input"
    /\ last_return.kind = "ok"
    /\ turn_log = <<"gen", "tool", "gen">>

Count(s, x) == Cardinality({i \in 1..Len(s) : s[i] = x})

\* C7: no turn makes more than 10 generation calls; with a collaborator that
\* requests a tool on every generation the turn never responds, it ends with
\* the iteration limit after 10 generation calls, reported as an error.
C7_IterationCap ==
    /\ iterations <= 10
    /\ Count(turn_log, "gen") = iterations
    /\ llm_policy = "always_tool" =>
          /\ turn_outcome # "responded"
          /\ turn_outcome = "iteration_limit" =>
                (iterations = 10 /\ Count(turn_log, "tool") = 10)
          /\ (pc = "await_input" /\ last_cmd = "chat") =>
                (turn_outcome = "iteration_limit" /\ last_return.kind = "error")

\* the turn was stopped at the cap and chat returned the error
C7_Witness ==
    /\ llm_policy = "always_tool"
    /\ pc = "await_input"
    /\ turn_outcome = "iteration_limit"
    /\ last_return.kind = "error"

NoGenerationCall ==
    /\ iterations' = iterations
    /\ turn_log' = turn_log
    /\ agent_pc' = agent_pc
    /\ fa_calls' = fa_calls

\* C8: for every line the driver reads that is non-empty once stripped,
\* exactly one of four things happens, chosen by the lower-cased line:
\* exit/quit/bye ends the loop; reset empties the history; history lists every
\* stored message; any other line is forwarded to chat.  exit, reset and
\* history make no generation call.
C8_DriverCommands ==
    [][ /\ pc = "chat_run" => last_cmd = "chat"
        /\ (pc = "await_input" /\ pc' # "goodbye" /\ user_input' # <<>>) =>
            LET cmd == Lower(user_input')
                kind == IF cmd \in {W_exit, W_quit, W_bye} THEN "exit"
                        ELSE IF cmd = W_reset THEN "reset"
                        ELSE IF cmd = W_history THEN "history"
                        ELSE "chat"
            IN  /\ last_cmd' = kind
                /\ kind = "exit" =>
                      /\ pc' = "exited"
                      /\ conversation_history' = conversation_history
                      /\ listed' = listed
                      /\ NoGenerationCall
                /\ kind = "reset" =>
                      /\ pc' = "await_input"
                      /\ conversation_history' = <<>>
                      /\ listed' = listed
                      /\ NoGenerationCall
                /\ kind = "history" =>
                      /\ pc' = "await_input"
                      /\ conversation_history' = conversation_history
                      /\ Len(listed') = Len(conversation_history)
                      /\ \A i \in 1..Len(conversation_history) :
                            /\ listed'[i].content =
                                  Truncate(conversation_history[i].content, 100)
                            /\ listed'[i].role \in {"USER", "ASSISTANT"}
                      /\ NoGenerationCall
                /\ kind = "chat" =>
                      /\ pc' = "chat_run"
                      /\ conversation_history' = conversation_history
                      /\ listed' = listed
                      /\ iterations' = 0 ]_vars

\* HISTORY, typed in capitals, listed the messages of a stored turn
C8_Witness ==
    /\ last_cmd = "history"
    /\ user_input # W_history
    /\ Len(listed) >= 2
    /\ Len(listed) = Len(conversation_history)

\* only complete turns: user, assistant, user, assistant, ...
CompleteTurns(history) ==
    /\ Len(history) % 2 = 0
    /\ \A i \in 1..Len(history) :
          history[i].role = IF i % 2 = 1 THEN "user" ELSE "assistant"

\* C9: when a user interrupt has ended the session, whatever point of the
\* turn it arrived at, the history holds only complete turns, never a user
\* message without its assistant response.
C9_InterruptLeavesCompleteTurns ==
    pc = "goodbye" => CompleteTurns(conversation_history)

HasToolCallRequests(message) ==
    message.type = "ai" /\ message.tool_calls # <<>>

LastMessage(state) == state.messages[Len(state.messages)]

\* C10: should_continue(state) is true iff the last message of state carries
\* one or more tool-call requests, and two states with the same last message
\* give the same result whatever their earlier messages.
C10_ShouldContinueLastMessage ==
    sc_pc = "done" =>
        /\ sc_result_a <=> HasToolCallRequests(LastMessage(sc_a))
        /\ sc_result_b <=> HasToolCallRequests(LastMessage(sc_b))
        /\ LastMessage(sc_a) = LastMessage(sc_b) => sc_result_a = sc_result_b

\* two states, same last message without a request, a request earlier in one
C10_Witness ==
    /\ sc_pc = "done"
    /\ Len(sc_a.messages) = 2
    /\ Len(sc_b.messages) = 2
    /\ LastMessage(sc_a) = LastMessage(sc_b)
    /\ sc_a.messages[1] # sc_b.messages[1]
    /\ HasToolCallRequests(sc_a.messages[1])
    /\ ~sc_result_a

\* what sql_executor did with each of the two queries
SqlOutcomes == {fn_result[1], fn_result[2]}

SqlDone == fn_name = "sql_executor" /\ fn_pc = "done"

\* C11: for every query, sql_executor returns a value and never raises: the
\* value is either a results payload or, when executing the statement fails,
\* an error payload carrying the message.
C11_SqlExecutorAlwaysReturns ==
    SqlDone =>
        \A o \in SqlOutcomes :
            /\ o.kind = "return"
            /\ DOMAIN o.value \in {{"results"}, {"error"}}

EnabledTools(cfg) == { t \in DOMAIN FlagOf : cfg[FlagOf[t]] }

Registered == { tools[i] : i \in 1..Len(tools) }

\* C13: after construction and any sequence of chat, reset_conversation,
\* set_system_prompt and update_config calls, the registered tools are exactly
\* the tools whose use_* switch is enabled in the current configuration.
C13_ToolsMatchConfig ==
    program = "api" => Registered = EnabledTools(config)

DescribeDone == fn_name = "get_table_schema_and_sample_rows" /\ fn_pc = "done"

\* the tables of a store whose metadata and sample-row queries both succeed
QueriesSucceed(store) == { t \in DOMAIN store : ~NeedsQuoting(t) }

\* C14: when the metadata or sample-row query of one table fails, describe
\* does not abort: it returns the entries of all tables whose queries succeeded.
C14_DescribeSurvivesTableFailure ==
    DescribeDone =>
        /\ fn_result.kind = "return"
        /\ QueriesSucceed(fn_args.store) \subseteq DOMAIN fn_result.value.tables

ColumnNames(t) == { TableColumns[t][i][1] : i \in 1..Len(TableColumns[t]) }

\* C15: for every store, describe returns one entry per table; the entry's
\* schema maps exactly the table's column names to their declared types and
\* its sample rows are min(2, row count) mappings keyed by those column names.
C15_DescribeEntries ==
    DescribeDone =>
        /\ fn_result.kind = "return"
        /\ DOMAIN fn_result.value.tables = DOMAIN fn_args.store
        /\ \A t \in DOMAIN fn_args.store :
            LET entry == fn_result.value.tables[t]
                count == fn_args.store[t]
            IN  /\ DOMAIN entry.schema = ColumnNames(t)
                /\ \A i \in 1..Len(TableColumns[t]) :
                       entry.schema[TableColumns[t][i][1]] = TableColumns[t][i][2]
                /\ Len(entry.sample_rows) = (IF count < 2 THEN count ELSE 2)
                /\ \A n \in 1..Len(entry.sample_rows) :
                       DOMAIN entry.sample_rows[n] = DOMAIN entry.schema

VisualizationDone == fn_name = "generate_visualization" /\ fn_pc = "done"

\* the word of the acknowledgement that follows "Generated "
ChartNamed(text) ==
    LET from == Len(AckGenerated) + 1
        stop == CHOOSE k \in from..Len(text) :
                    /\ text[k] = " "
                    /\ \A j \in from..(k - 1) : text[j] # " "
    IN  SubSeq(text, from, stop - 1)

\* C16: generate_visualization never fails; for bar, line, pie, scatter,
\* histogram and box the acknowledgement names that type, and for any other
\* chart type it names bar; the acknowledgement carries the description.
C16_VisualizationCoercesToBar ==
    VisualizationDone =>
        /\ fn_result.kind = "return"
        /\ ChartNamed(fn_result.value) =
               (IF fn_args.chart_type \in
                       { <<"b", "a", "r">>, <<"l", "i", "n", "e">>, <<"p", "i", "e">>,
                         <<"s", "c", "a", "t", "t", "e", "r">>,
                         <<"h", "i", "s", "t", "o", "g", "r", "a", "m">>,
                         <<"b", "o", "x">> }
                THEN Upper(fn_args.chart_type)
                ELSE <<"B", "A", "R">>)
        /\ Contains(fn_result.value, fn_args.data_description)

\* the chart type treemap was asked for and bar was generated
C16_Witness ==
    /\ VisualizationDone
    /\ fn_args.chart_type = <<"t", "r", "e", "e", "m", "a", "p">>
    /\ fn_args.data_description # <<>>
    /\ ChartNamed(fn_result.value) = <<"B", "A", "R">>

ChitchatDone == fn_name = "handle_chitchat" /\ fn_pc = "done"

\* C17: handle_chitchat returns the canned greeting exactly when the
\* lower-cased message contains hello, hi, hey, greetings, good morning or
\* good afternoon, and the fallback otherwise: "Hello there" is greeted,
\* "what's the revenue trend" gets the fallback.
C17_GreetingIffGreetingWord ==
    ChitchatDone =>
        LET words == { <<"h", "e", "l", "l", "o">>,
                  <<"h", "i">>,
                  <<"h", "e", "y">>,
                  <<"g", "r", "e", "e", "t", "i", "n", "g", "s">>,
                  <<"g", "o", "o", "d", " ", "m", "o", "r", "n", "i", "n", "g">>,
                  <<"g", "o", "o", "d", " ", "a", "f", "t", "e", "r", "n", "o", "o", "n">> }
            greeted == \E w \in words : Contains(Lower(fn_args.message), w)
        IN  /\ fn_result.kind = "return"
            /\ fn_result.value = (IF greeted THEN GreetingResponse ELSE FallbackResponse)
            /\ fn_args.message = <<"H", "e", "l", "l", "o", " ", "t", "h", "e", "r", "e">>
                   => fn_result.value = GreetingResponse
            /\ fn_args.message = <<"w", "h", "a", "t", "'", "s", " ", "t", "h", "e", " ", "r", "e", "v",
                    "e", "n", "u", "e", " ", "t", "r", "e", "n", "d">>
                   => fn_result.value = FallbackResponse

\* a message that greets only through the letters hi inside a word
C17_Witness ==
    /\ ChitchatDone
    /\ fn_args.message = <<"w", "h", "i", "c", "h", " ", "c", "i", "t", "y">>
    /\ fn_result.value = GreetingResponse

\* one pass of the loop of financial_analyst_agent reached the generation call
GenerationCall == fa_pc = "loop" /\ fa_calls' > fa_calls

\* C18: in every iteration of the financial_analyst_agent loop the generation
\* call is handed the system prompt, then all stored messages in insertion
\* order, then the new user message; when it returns, the stored history is
\* the previous history with the user message and then the response appended.
C18_PromptIsSystemHistoryUser ==
    [][GenerationCall =>
        LET asked == [type |-> "human", content |-> fa_query]
            before == Len(fa_messages)
        IN  /\ Len(fa_prompt') = Len(fa_system_prompt) + before + 1
            /\ SubSeq(fa_prompt', 1, Len(fa_system_prompt)) = fa_system_prompt
            /\ \A i \in 1..before : fa_prompt'[Len(fa_system_prompt) + i] = fa_messages[i]
            /\ fa_prompt'[Len(fa_prompt')] = asked
            /\ fa_pc' = "loop" =>
                /\ Len(fa_messages') = before + 2
                /\ \A i \in 1..before : fa_messages'[i] = fa_messages[i]
                /\ fa_messages'[before + 1] = asked
                /\ fa_messages'[before + 2] \in LlmReplies
    ]_vars

\* a second iteration ran: its prompt held the first exchange
C18_Witness ==
    /\ program = "app"
    /\ fa_calls = 2
    /\ Len(fa_messages) = 4
    /\ Len(fa_prompt) = Len(fa_system_prompt) + 3

\* C19: once the user has entered exit or bye, the loop of
\* financial_analyst_agent ends: no further generation call is made and the
\* function returns.
C19_ExitEndsLoop ==
    [][(program = "app" /\ fa_pc = "loop" /\ fa_query \in {W_exit, W_bye}) =>
        /\ fa_calls' = fa_calls
        /\ fa_pc' = "returned"
    ]_vars

\* the driver is between two calls of the analyst and was not interrupted
BetweenCalls == program = "main" /\ pc = "await_input" /\ interrupted_at = ""

\* C20: between calls of chat and reset_conversation, without interrupt,
\* conversation_history has even length and alternates user, assistant, ...:
\* a successful chat appended one user entry and then one assistant entry,
\* a failed chat appended nothing.
C20_HistoryAlternates ==
    BetweenCalls =>
        /\ Len(conversation_history) % 2 = 0
        /\ \A i \in 1..Len(conversation_history) :
              conversation_history[i].role = (IF i % 2 = 1 THEN "user" ELSE "assistant")
        /\ last_cmd = "chat" =>
              IF last_return.kind = "ok"
              THEN conversation_history =
                       history_before \o <<[role |-> "user", content |-> user_input],
                                           [role |-> "assistant", content |-> last_return.text]>>
              ELSE conversation_history = history_before

\* a failed chat after a successful one: the history is the one stored pair
C20_Witness ==
    /\ BetweenCalls
    /\ last_cmd = "chat"
    /\ last_return.kind = "error"
    /\ Len(conversation_history) = 2

====
